---- MODULE Spec2Model ----
(***************************************************************************)
(* Conversation-state management and message navigation of the AI          *)
(* assistant UI: the AIAssistant orchestrator (conversation store,         *)
(* handleSendMessage round trips), the ChatWindow navigation cursor, the    *)
(* InputBar draft/submit with its VoiceInput, and the AudioGenerator         *)
(* completion callback.                                                     *)
(*                                                                         *)
(* Text is a sequence of one-character strings, so that trim, split, join   *)
(* and substring are computed as the JavaScript code computes them.         *)
(* Timestamps (Date) are not modelled; Date.now() based ids are modelled    *)
(* as fresh ids taken from a counter.                                       *)
(***************************************************************************)
EXTENDS Integers, Sequences, FiniteSets, TLC

VARIABLES
    conversations,          \* AIAssistant state: Conversation[]
    activeConversationId,   \* AIAssistant state: string | null
    isLoading,              \* AIAssistant state
    created,                \* number of createNewConversation calls (stands for Date.now())
    trips,                  \* handleSendMessage invocations past their guard, in call order
    generating,             \* AudioGenerator: closures held by a running handleGenerateAudio
    message,                \* InputBar draft
    isListening,            \* InputBar state
    recognition,            \* VoiceInput: state of the speech recognition session
    capture,                \* VoiceInput: the microphone stream, the audio context,
                            \*   the audio-level polling and the last notice
    history,                \* ConversationHistory state: editingId, editTitle,
                            \*   selectedConversationId, currentMessageIndex,
                            \*   and its searchQuery prop (historySearchQuery)
    currentMessageIndex,    \* ChatWindow state: number | null
    isNavigationMode,       \* ChatWindow state
    navObs,                 \* observer: steps taken since navigation started
    lastOp                  \* observer: the handler that ran last, when a property is about it

vars == <<conversations, activeConversationId, isLoading, created, trips,
          generating, message, isListening, recognition, capture, history,
          currentMessageIndex, isNavigationMode, navObs, lastOp>>

voiceVars == <<isListening, recognition, capture>>

-----------------------------------------------------------------------------
(* Bounds of the model *)

MaxSends == 1
MaxCreates == 1
MaxDraft == 7
MaxBreaks == 1
MaxAudio == 1

-----------------------------------------------------------------------------
(* Values *)

Null == "null"
NoIndex == -1
DefaultId == "default"
ConvIds == <<"conv-1", "conv-2", "conv-3", "conv-4", "conv-5">>
UserIds == <<"user-1", "user-2", "user-3", "user-4", "user-5">>
AssistantIds == <<"assistant-1", "assistant-2", "assistant-3", "assistant-4", "assistant-5">>

NewConversationTitle ==
    <<"N", "e", "w", " ", "C", "o", "n", "v", "e", "r", "s", "a", "t", "i", "o", "n">>
WelcomePreview ==
    <<"W", "e", "l", "c", "o", "m", "e", " ", "t", "o", " ", "A", "I", " ",
      "A", "s", "s", "i", "s", "t", "a", "n", "t">>
StartPreview ==
    <<"S", "t", "a", "r", "t", " ", "a", " ", "n", "e", "w", " ",
      "c", "o", "n", "v", "e", "r", "s", "a", "t", "i", "o", "n">>
Ellipsis == <<".", ".", ".">>
PreviewLength == 50
TitleWords == 4

(* Inputs: drafts typed into the InputBar, the text sent by the audio
   callback, the response of the service, titles typed in a rename. *)
TextPadded == <<" ", "h", "i", " ">>
TextFive == <<"a", " ", "b", " ", "c", " ", "d", " ", "e">>
TextBlank == <<" ">>
TextAudio ==
    <<"G", "e", "n", "e", "r", "a", "t", "e", "d", " ", "a", "u", "d", "i", "o", " ",
      "s", "c", "r", "i", "p", "t", ":", " ", "W", "e", "l", "c", "o", "m", "e", " ",
      "t", "o", " ", "t", "h", "i", "s", " ", "A", "I", "-", "g", "e", "n", "e", "r",
      "a", "t", "e", "d", " ", "a", "u", "d", "i", "o", " ", "c", "o", "n", "t", "e",
      "n", "t">>
TextReply == <<"o", "k">>
TextSpoken == <<"y", "o">>
TextFifty == SubSeq(TextAudio, 1, PreviewLength)
LastMessages == {TextFive, TextFifty, TextAudio}
MissingId == "missing"
MessageLists ==
    {<<>>,
     <<[id |-> UserIds[1], type |-> "user", content |-> <<"h", "i">>,
        status |-> "sent"],
       [id |-> AssistantIds[1], type |-> "assistant", content |-> TextReply,
        status |-> "none"]>>}
EditTexts == {<<>>, <<" ">>, <<" ", "x", " ">>}
TextInterim == <<"y">>
Drafts == {TextPadded}
Queries == {<<"n", "e", "w">>, <<"W", "E">>, <<"X">>, <<"z", "z">>}
Contents == {<<>>, TextBlank, TextPadded, TextFive}
Titles == {<<"x">>, <<"y", " ", "z">>, NewConversationTitle}

-----------------------------------------------------------------------------
(* String functions of the JavaScript runtime used by the code *)

Min(a, b) == IF a < b THEN a ELSE b
Max(a, b) == IF a > b THEN a ELSE b

(* The white space String.prototype.trim removes, as far as the inputs go. *)
WhiteSpace == {" ", "\n"}

RECURSIVE TrimStart(_)
TrimStart(s) == IF s # <<>> /\ Head(s) \in WhiteSpace THEN TrimStart(Tail(s)) ELSE s

RECURSIVE TrimEnd(_)
TrimEnd(s) ==
    IF s # <<>> /\ s[Len(s)] \in WhiteSpace
    THEN TrimEnd(SubSeq(s, 1, Len(s) - 1))
    ELSE s

Trim(s) == TrimEnd(TrimStart(s))

(* split(' ') and join(' ').  The argument is bound to its value by a
   function over a one-element domain, so that it is computed once. *)
RECURSIVE Split(_)
Split(str) ==
    LET parts[s \in {str}] ==
            IF \A i \in 1..Len(s) : s[i] # " "
            THEN <<s>>
            ELSE LET k == CHOOSE i \in 1..Len(s) :
                              s[i] = " " /\ \A j \in 1..(i - 1) : s[j] # " "
                 IN  <<SubSeq(s, 1, k - 1)>> \o Split(SubSeq(s, k + 1, Len(s)))
    IN  parts[str]

RECURSIVE Join(_)
Join(list) ==
    LET joined[words \in {list}] ==
            IF words = <<>> THEN <<>>
            ELSE IF Len(words) = 1 THEN words[1]
            ELSE words[1] \o <<" ">> \o Join(Tail(words))
    IN  joined[list]

Slice(seq, n) == SubSeq(seq, 1, Min(n, Len(seq)))

Capitals ==
    <<"A", "B", "C", "D", "E", "F", "G", "H", "I", "J", "K", "L", "M",
      "N", "O", "P", "Q", "R", "S", "T", "U", "V", "W", "X", "Y", "Z">>
Letters ==
    <<"a", "b", "c", "d", "e", "f", "g", "h", "i", "j", "k", "l", "m",
      "n", "o", "p", "q", "r", "s", "t", "u", "v", "w", "x", "y", "z">>

(* A comparison that tells capitals from small letters. *)
toLowerCaseNot(s) == s

toLowerCase(s) ==
    [i \in 1..Len(s) |->
        IF \E k \in 1..Len(Capitals) : Capitals[k] = s[i]
        THEN Letters[CHOOSE k \in 1..Len(Capitals) : Capitals[k] = s[i]]
        ELSE s[i]]

Includes(s, q) ==
    \E k \in 0..(Len(s) - Len(q)) : SubSeq(s, k + 1, k + Len(q)) = q

Substring(s, n) == SubSeq(s, 1, Min(n, Len(s)))

-----------------------------------------------------------------------------
(* AIAssistant: derived values and store functions *)

Ids(convs) == {convs[i].id : i \in 1..Len(convs)}

MessagesOf(convs, active) ==
    IF \E i \in 1..Len(convs) : convs[i].id = active
    THEN LET k == CHOOSE i \in 1..Len(convs) :
                      convs[i].id = active /\ \A j \in 1..(i - 1) : convs[j].id # active
         IN  convs[k].messages
    ELSE <<>>

Messages == MessagesOf(conversations, activeConversationId)

(* A title that never shows that words were left out. *)
generateTitleNoEllipsis(text) == Join(Slice(Split(text), TitleWords))

generateTitle(text) ==
    Join(Slice(Split(text), TitleWords))
        \o (IF Len(Split(text)) > TitleWords THEN Ellipsis ELSE <<>>)

(* A replacement that does not look at the id. *)
updateConversationMessagesAll(convs, conversationId, newMessages) ==
    [i \in 1..Len(convs) |-> [convs[i] EXCEPT !.messages = newMessages]]

updateConversationMessages(convs, conversationId, newMessages) ==
    [i \in 1..Len(convs) |->
        IF convs[i].id = conversationId
        THEN [convs[i] EXCEPT !.messages = newMessages]
        ELSE convs[i]]

(* A metadata update that derives the title whatever the title is. *)
updateConversationMetadataRetitled(convs, conversationId, lastMessage) ==
    [i \in 1..Len(convs) |->
        IF convs[i].id = conversationId
        THEN [convs[i] EXCEPT
                !.title = generateTitle(lastMessage),
                !.preview = Substring(lastMessage, PreviewLength)
                              \o (IF Len(lastMessage) > PreviewLength
                                  THEN Ellipsis ELSE <<>>)]
        ELSE convs[i]]

updateConversationMetadata(convs, conversationId, lastMessage) ==
    [i \in 1..Len(convs) |->
        IF convs[i].id = conversationId
        THEN [convs[i] EXCEPT
                !.title = IF convs[i].title = NewConversationTitle
                          THEN generateTitle(lastMessage)
                          ELSE convs[i].title,
                !.preview = Substring(lastMessage, PreviewLength)
                              \o (IF Len(lastMessage) > PreviewLength
                                  THEN Ellipsis ELSE <<>>)]
        ELSE convs[i]]

Filter(convs, id) == SelectSeq(convs, LAMBDA c : c.id # id)

-----------------------------------------------------------------------------
(* Observers *)

NavOff == [n |-> 0, ups |-> 0, down |-> 0]

(* A handler outside the ChatWindow ran: the observation of a navigation
   goes on only while the displayed sequence keeps its length. *)
NavKeep ==
    navObs' = IF navObs.n # 0
                 /\ Len(MessagesOf(conversations', activeConversationId')) = navObs.n
              THEN navObs
              ELSE NavOff

Op(name, id, text) ==
    [op |-> name, id |-> id, text |-> text, active |-> activeConversationId]

(* Handlers that no property singles out leave no trace. *)
NoOp == [op |-> "-", id |-> Null, text |-> <<>>, active |-> Null]

(* The closure of a render: the values a handler created by that render
   sees.  live is an observer: the conversation that was active in that
   render is still in the collection (last is the observer of a round
   trip, unused in a closure). *)
Closure ==
    [activeConversationId |-> activeConversationId,
     messages |-> Messages,
     live |-> activeConversationId \in Ids(conversations),
     last |-> FALSE]

Removed(records, gone) ==
    [i \in 1..Len(records) |->
        IF records[i].activeConversationId \in gone
        THEN [records[i] EXCEPT !.live = FALSE, !.last = FALSE]
        ELSE records[i]]

(* The bootstrap effect has run for the committed render. *)
EffectsFlushed == conversations # <<>>

-----------------------------------------------------------------------------
(* Initial state: the useState initial values of the three components *)

Init ==
    /\ conversations = <<>>
    /\ activeConversationId = Null
    /\ isLoading = FALSE
    /\ created = 0
    /\ trips = <<>>
    /\ generating = <<>>
    /\ message = <<>>
    /\ isListening = FALSE
    /\ recognition = "idle"
    /\ capture = [stream |-> "none", context |-> "none", polling |-> FALSE,
                  listening |-> FALSE, notice |-> "none"]
    /\ history = [editingId |-> Null, editTitle |-> <<>>,
                  selectedConversationId |-> Null, currentMessageIndex |-> 0,
                  searchQuery |-> <<>>]
    /\ currentMessageIndex = NoIndex
    /\ isNavigationMode = FALSE
    /\ navObs = NavOff
    /\ lastOp = NoOp

-----------------------------------------------------------------------------
(* AIAssistant: conversation management *)

(* An effect without its guard. *)
bootstrapNeededAlways(length) == TRUE

(* The guard of the bootstrap effect. *)
bootstrapNeeded(length) == length = 0

(* The bootstrap effect: it runs after the render that committed a change of
   conversations.length, and on mount. *)
Bootstrap ==
    /\ bootstrapNeeded(Len(conversations))
    /\ conversations' = <<[id |-> DefaultId,
                           title |-> NewConversationTitle,
                           isPinned |-> FALSE,
                           preview |-> WelcomePreview,
                           messages |-> <<>>]>>
    /\ activeConversationId' = DefaultId
    /\ lastOp' = NoOp
    /\ UNCHANGED <<isLoading, created, trips, generating, message,
                   currentMessageIndex, isNavigationMode>>
    /\ NavKeep
    /\ UNCHANGED voiceVars
    /\ UNCHANGED history

(* An insertion at the end of the collection. *)
createNewConversationLast(prev, newConversation) == prev \o <<newConversation>>

createNewConversation(prev, newConversation) == <<newConversation>> \o prev

CreateNewConversation ==
    /\ EffectsFlushed
    /\ created < MaxCreates
    /\ LET newConversation == [id |-> ConvIds[created + 1],
                               title |-> NewConversationTitle,
                               isPinned |-> FALSE,
                               preview |-> StartPreview,
                               messages |-> <<>>]
       IN  /\ conversations' = createNewConversation(conversations, newConversation)
           /\ activeConversationId' = newConversation.id
           /\ lastOp' = NoOp
    /\ created' = created + 1
    /\ UNCHANGED <<isLoading, trips, generating, message,
                   currentMessageIndex, isNavigationMode>>
    /\ NavKeep
    /\ UNCHANGED voiceVars
    /\ UNCHANGED history

SelectConversation(id) ==
    /\ id \in Ids(conversations)
    /\ activeConversationId' = id
    /\ lastOp' = NoOp
    /\ UNCHANGED <<conversations, isLoading, created, trips, generating, message,
                   currentMessageIndex, isNavigationMode>>
    /\ NavKeep
    /\ UNCHANGED voiceVars
    /\ UNCHANGED history

renameConversation(convs, id, newTitle) ==
    [i \in 1..Len(convs) |->
        IF convs[i].id = id THEN [convs[i] EXCEPT !.title = newTitle] ELSE convs[i]]

RenameConversation(id, newTitle) ==
    /\ id \in Ids(conversations)
    /\ conversations' = renameConversation(conversations, id, newTitle)
    /\ lastOp' = NoOp
    /\ UNCHANGED <<activeConversationId, isLoading, created, trips, generating,
                   message, currentMessageIndex, isNavigationMode>>
    /\ NavKeep
    /\ UNCHANGED voiceVars
    /\ UNCHANGED history

(* A deleteConversation that leaves the active id as it was. *)
nextActiveStale(filtered, id, active) == active

(* A deleteConversation that selects nothing after the active one is gone. *)
nextActiveNone(filtered, id, active) == IF id = active THEN Null ELSE active

nextActive(filtered, id, active) ==
    IF id = active
    THEN (IF filtered # <<>> THEN filtered[1].id ELSE Null)
    ELSE active

DeleteConversation(id) ==
    /\ id \in Ids(conversations)
    /\ conversations' = Filter(conversations, id)
    /\ activeConversationId' =
           nextActive(Filter(conversations, id), id, activeConversationId)
    /\ trips' = Removed(trips, {id})
    /\ generating' = Removed(generating, {id})
    /\ lastOp' = Op("deleteConversation", id, <<>>)
    /\ UNCHANGED <<isLoading, created, message, currentMessageIndex, isNavigationMode>>
    /\ NavKeep
    /\ UNCHANGED voiceVars
    /\ UNCHANGED history

PinConversation(id) ==
    /\ id \in Ids(conversations)
    /\ conversations' = [i \in 1..Len(conversations) |->
                            IF conversations[i].id = id
                            THEN [conversations[i] EXCEPT !.isPinned = ~@]
                            ELSE conversations[i]]
    /\ lastOp' = NoOp
    /\ UNCHANGED <<activeConversationId, isLoading, created, trips, generating,
                   message, currentMessageIndex, isNavigationMode>>
    /\ NavKeep
    /\ UNCHANGED voiceVars
    /\ UNCHANGED history

(* A clear that spares the pinned conversations. *)
clearedButPinned(prev) == SelectSeq(prev, LAMBDA c : c.isPinned)

cleared(prev) == <<>>

HandleClearHistory ==
    /\ EffectsFlushed
    /\ conversations' = cleared(conversations)
    /\ activeConversationId' = Null
    /\ trips' = Removed(trips, Ids(conversations))
    /\ generating' = Removed(generating, Ids(conversations))
    /\ lastOp' = Op("handleClearHistory", Null, <<>>)
    /\ UNCHANGED <<isLoading, created, message, currentMessageIndex, isNavigationMode>>
    /\ NavKeep
    /\ UNCHANGED voiceVars
    /\ UNCHANGED history

(* SettingsPanel.handleClearHistory: the button of the settings dialog asks
   for a confirmation; confirm is the answer given to window.confirm. *)
SettingsHandleClearHistory(confirm) ==
    IF confirm
    THEN HandleClearHistory
    ELSE /\ EffectsFlushed
         /\ lastOp' = NoOp
         /\ UNCHANGED <<conversations, activeConversationId, isLoading, created,
                        trips, generating, message, currentMessageIndex,
                        isNavigationMode, navObs>>
         /\ UNCHANGED voiceVars
         /\ UNCHANGED history

-----------------------------------------------------------------------------
(* AIAssistant: the two store functions handleSendMessage writes through,
   called on their own with any id and any value. *)

UpdateConversationMessages(conversationId, newMessages) ==
    /\ conversations' =
           updateConversationMessages(conversations, conversationId, newMessages)
    /\ lastOp' = Op("updateConversationMessages", conversationId, <<>>)
    /\ UNCHANGED <<activeConversationId, isLoading, created, trips, generating,
                   message, currentMessageIndex, isNavigationMode>>
    /\ NavKeep
    /\ UNCHANGED voiceVars
    /\ UNCHANGED history

UpdateConversationMetadata(conversationId, lastMessage) ==
    /\ conversations' =
           updateConversationMetadata(conversations, conversationId, lastMessage)
    /\ lastOp' = Op("updateConversationMetadata", conversationId, lastMessage)
    /\ UNCHANGED <<activeConversationId, isLoading, created, trips, generating,
                   message, currentMessageIndex, isNavigationMode>>
    /\ NavKeep
    /\ UNCHANGED voiceVars
    /\ UNCHANGED history

-----------------------------------------------------------------------------
(* AIAssistant: handleSendMessage.  cl is the closure of the render that
   created the handler; the part up to the await of callAI runs in one step. *)

(* A status flip that leaves the message as it was. *)
SentStale(userMessage) == userMessage

Sent(userMessage) == [userMessage EXCEPT !.status = "sent"]
Failed(userMessage) == [userMessage EXCEPT !.status = "error"]

(* Observer: trip t has written the message list of its target; it is the
   last writer of that conversation if the conversation is there. *)
Wrote(trs, t) ==
    [u \in 1..Len(trs) |->
        IF u = t
        THEN [trs[u] EXCEPT !.last = trs[t].activeConversationId \in Ids(conversations)]
        ELSE IF trs[u].activeConversationId = trs[t].activeConversationId
             THEN [trs[u] EXCEPT !.last = FALSE]
             ELSE trs[u]]

(* A guard that forgets to trim. *)
returnsEarlyUntrimmed(cl, content) ==
    cl.activeConversationId = Null \/ content = <<>>

returnsEarly(cl, content) ==
    cl.activeConversationId = Null \/ Trim(content) = <<>>

(* The round trips started so far by the audio callback (audio) or by the
   other callers. *)
Started(audio) ==
    Cardinality({t \in 1..Len(trips) :
                    (trips[t].entry = "handleAudioGenerated") = audio})

handleSendMessage(cl, content, name) ==
    IF returnsEarly(cl, content)
    THEN /\ UNCHANGED <<conversations, isLoading, trips>>
         /\ lastOp' = Op(name, cl.activeConversationId, content)
    ELSE /\ IF name = "handleAudioGenerated"
            THEN Started(TRUE) < MaxAudio
            ELSE Started(FALSE) < MaxSends
         /\ LET userMessage == [id |-> UserIds[Len(trips) + 1],
                                type |-> "user",
                                content |-> Trim(content),
                                status |-> "sending"]
            IN  /\ conversations' =
                       updateConversationMessages(conversations, cl.activeConversationId,
                                                  Append(cl.messages, userMessage))
                /\ trips' = Wrote(Append(trips,
                       [activeConversationId |-> cl.activeConversationId,
                        messages |-> cl.messages,
                        userMessage |-> userMessage,
                        content |-> content,
                        entry |-> name,
                        timer |-> "pending",
                        call |-> "pending",
                        calls |-> 1,
                        toast |-> FALSE,
                        before |-> MessagesOf(conversations, cl.activeConversationId),
                        atActive |-> cl.activeConversationId = activeConversationId,
                        live |-> cl.live,
                        last |-> FALSE]), Len(trips) + 1)
         /\ isLoading' = TRUE
         /\ lastOp' = Op(name, cl.activeConversationId, content)

(* A handler whose setIsLoading(false) is not in a finally block. *)
finallyLoadingSkipped(thrown) == thrown

(* isLoading after the finally block of handleSendMessage; thrown tells
   whether it is reached from the catch block. *)
finallyLoading(thrown) == FALSE

(* The 100 ms timer of trip t fires. *)
TimerFires(t) ==
    /\ t \in 1..Len(trips)
    /\ trips[t].timer = "pending"
    /\ conversations' =
           updateConversationMessages(conversations, trips[t].activeConversationId,
               Append(trips[t].messages, Sent(trips[t].userMessage)))
    /\ trips' = Wrote([trips EXCEPT ![t].timer = "fired"], t)
    /\ lastOp' = NoOp
    /\ UNCHANGED <<activeConversationId, isLoading, created, generating, message,
                   currentMessageIndex, isNavigationMode>>
    /\ NavKeep
    /\ UNCHANGED voiceVars
    /\ UNCHANGED history

(* callAI of trip t returns aiResponse: the rest of the try block and finally. *)
CallAIResolves(t, aiResponse) ==
    /\ t \in 1..Len(trips)
    /\ trips[t].call = "pending"
    /\ LET assistantMessage == [id |-> AssistantIds[t],
                                type |-> "assistant",
                                content |-> aiResponse,
                                status |-> "none"]
           written == updateConversationMessages(conversations,
                          trips[t].activeConversationId,
                          trips[t].messages
                              \o <<Sent(trips[t].userMessage), assistantMessage>>)
       IN  conversations' =
               updateConversationMetadata(written, trips[t].activeConversationId,
                                          trips[t].content)
    /\ isLoading' = finallyLoading(FALSE)
    /\ trips' = Wrote([trips EXCEPT ![t].call = "resolved"], t)
    /\ lastOp' = NoOp
    /\ UNCHANGED <<activeConversationId, created, generating, message,
                   currentMessageIndex, isNavigationMode>>
    /\ NavKeep
    /\ UNCHANGED voiceVars
    /\ UNCHANGED history

(* callAI of trip t throws: the catch block and finally. *)
CallAIRejects(t) ==
    /\ t \in 1..Len(trips)
    /\ trips[t].call = "pending"
    /\ conversations' =
           updateConversationMessages(conversations, trips[t].activeConversationId,
               Append(trips[t].messages, Failed(trips[t].userMessage)))
    /\ isLoading' = finallyLoading(TRUE)
    /\ trips' = Wrote([trips EXCEPT ![t].call = "rejected", ![t].toast = TRUE], t)
    /\ lastOp' = NoOp
    /\ UNCHANGED <<activeConversationId, created, generating, message,
                   currentMessageIndex, isNavigationMode>>
    /\ NavKeep
    /\ UNCHANGED voiceVars
    /\ UNCHANGED history

-----------------------------------------------------------------------------
(* InputBar *)

(* The disabled attributes of the textarea and of the send button. *)
textareaDisabled(loading, listening) == loading \/ listening

(* A send button that stays enabled during voice capture. *)
sendDisabledNoVoice(draft, loading, listening) == Trim(draft) = <<>> \/ loading

sendDisabled(draft, loading, listening) ==
    Trim(draft) = <<>> \/ loading \/ listening

HandleTextareaChange(text) ==
    /\ EffectsFlushed
    /\ ~textareaDisabled(isLoading, isListening)
    /\ text # message
    /\ message' = text
    /\ lastOp' = NoOp
    /\ UNCHANGED <<conversations, activeConversationId, isLoading, created, trips,
                   generating, currentMessageIndex, isNavigationMode>>
    /\ NavKeep
    /\ UNCHANGED voiceVars
    /\ UNCHANGED history

(* A submit that sends the draft as typed. *)
emittedUntrimmed(draft) == draft

emitted(draft) == Trim(draft)

(* The handler of the send button and of the Enter key; name is the trace
   of the caller. *)
handleSubmit(name) ==
    IF Trim(message) # <<>> /\ ~isLoading
    THEN /\ handleSendMessage(Closure, emitted(message), name)
         /\ message' = <<>>
    ELSE /\ UNCHANGED <<conversations, isLoading, trips, message>>
         /\ lastOp' = NoOp

(* A click on the send button. *)
HandleSubmit ==
    /\ EffectsFlushed
    /\ ~sendDisabled(message, isLoading, isListening)
    /\ handleSubmit("handleSubmit")
    /\ UNCHANGED <<activeConversationId, created, generating,
                   currentMessageIndex, isNavigationMode>>
    /\ NavKeep
    /\ UNCHANGED voiceVars
    /\ UNCHANGED history

(* The Enter key pressed in the textarea.  Without Shift the default is
   prevented and handleSubmit runs; with Shift the default runs, and the
   textarea reports the draft with a line break through its change handler. *)
HandleKeyDown(shiftKey) ==
    /\ EffectsFlushed
    /\ ~textareaDisabled(isLoading, isListening)
    /\ IF ~shiftKey
       THEN handleSubmit("handleKeyDown")
       ELSE /\ Len(message) < MaxDraft
            /\ Cardinality({i \in 1..Len(message) : message[i] = "\n"}) < MaxBreaks
            /\ message' = Append(message, "\n")
            /\ lastOp' = NoOp
            /\ UNCHANGED <<conversations, isLoading, trips>>
    /\ UNCHANGED <<activeConversationId, created, generating,
                   currentMessageIndex, isNavigationMode>>
    /\ NavKeep
    /\ UNCHANGED voiceVars
    /\ UNCHANGED history

-----------------------------------------------------------------------------
(* VoiceInput and InputBar.handleVoiceTranscription.  recognition is "idle",
   "starting" while handleStartListening awaits the microphone, "started"
   after recognition.start(), "stopping" after recognition.stop() until the
   session has delivered what it still had.  capture.stream is the
   MediaStream of getUserMedia ("live" until its tracks are stopped),
   capture.context the AudioContext, capture.polling whether an animation
   frame of updateAudioLevel is requested, capture.listening the isListening
   of the render whose handleStartListening is running, capture.notice the
   last notice of the capture. *)

(* The click on the microphone button, up to the await of getUserMedia. *)
HandleStartListening ==
    /\ EffectsFlushed
    /\ ~isListening
    /\ recognition = "idle"
    /\ isListening' = TRUE
    /\ recognition' = "starting"
    /\ capture' = [capture EXCEPT !.listening = isListening, !.notice = "none"]
    /\ lastOp' = NoOp
    /\ UNCHANGED <<conversations, activeConversationId, isLoading, created, trips,
                   generating, message, currentMessageIndex, isNavigationMode>>
    /\ NavKeep
    /\ UNCHANGED history

(* getUserMedia resolves: the rest of startAudioAnalysis, then
   recognition.start(). *)
RecognitionStarts ==
    /\ recognition = "starting"
    /\ recognition' = "started"
    /\ capture' = [capture EXCEPT !.stream = "live", !.context = "running",
                                  !.polling = capture.listening]
    /\ lastOp' = NoOp
    /\ UNCHANGED <<conversations, activeConversationId, isLoading, created, trips,
                   generating, message, isListening,
                   currentMessageIndex, isNavigationMode>>
    /\ NavKeep
    /\ UNCHANGED history

(* getUserMedia rejects: the catch block of startAudioAnalysis raises the
   notice and returns normally, so handleStartListening goes on to
   recognition.start() and its own catch block does not run. *)
MicrophoneDenied ==
    /\ recognition = "starting"
    /\ recognition' = "started"
    /\ capture' = [capture EXCEPT !.notice = "denied"]
    /\ lastOp' = NoOp
    /\ UNCHANGED <<conversations, activeConversationId, isLoading, created, trips,
                   generating, message, isListening,
                   currentMessageIndex, isNavigationMode>>
    /\ NavKeep
    /\ UNCHANGED history

stopped(session) == IF session = "started" THEN "stopping" ELSE session

(* The resources handleStopListening lets go of: the requested animation
   frame and the audio context.  The tracks of the stream are not stopped. *)
released(cap) ==
    [cap EXCEPT !.polling = FALSE,
                !.context = IF @ = "none" THEN "none" ELSE "closed"]

HandleStopListening ==
    /\ isListening
    /\ recognition' = stopped(recognition)
    /\ isListening' = FALSE
    /\ capture' = released(capture)
    /\ lastOp' = NoOp
    /\ UNCHANGED <<conversations, activeConversationId, isLoading, created, trips,
                   generating, message, currentMessageIndex, isNavigationMode>>
    /\ NavKeep
    /\ UNCHANGED history

(* A transcription that replaces the draft. *)
transcribedOver(prev, transcript) == transcript

transcribed(prev, transcript) ==
    prev \o (IF prev # <<>> THEN <<" ">> ELSE <<>>) \o transcript

(* recognition.onresult with the final and the interim text of the event. *)
OnResult(finalTranscript, interimTranscript) ==
    /\ recognition \in {"started", "stopping"}
    /\ finalTranscript \o interimTranscript # <<>>
    /\ IF finalTranscript # <<>>
       THEN /\ Len(message) + Len(finalTranscript) < MaxDraft
            /\ message' = transcribed(message, finalTranscript)
            /\ isListening' = FALSE
            /\ recognition' = stopped(recognition)
            /\ capture' = released(capture)
       ELSE UNCHANGED <<message, isListening, recognition, capture>>
    /\ lastOp' = Op("onresult", Null, finalTranscript)
    /\ UNCHANGED <<conversations, activeConversationId, isLoading, created, trips,
                   generating, currentMessageIndex, isNavigationMode>>
    /\ NavKeep
    /\ UNCHANGED history

(* recognition.onerror: the notice and handleStopListening; the session
   that reported the error is over. *)
OnError ==
    /\ recognition \in {"started", "stopping"}
    /\ recognition' = "idle"
    /\ isListening' = FALSE
    /\ capture' = [released(capture) EXCEPT !.notice = "error"]
    /\ lastOp' = NoOp
    /\ UNCHANGED <<conversations, activeConversationId, isLoading, created, trips,
                   generating, message, currentMessageIndex, isNavigationMode>>
    /\ NavKeep
    /\ UNCHANGED history

(* The session that was stopped has nothing more to deliver. *)
RecognitionEnds ==
    /\ recognition = "stopping"
    /\ recognition' = "idle"
    /\ lastOp' = NoOp
    /\ UNCHANGED <<conversations, activeConversationId, isLoading, created, trips,
                   generating, message, isListening, capture,
                   currentMessageIndex, isNavigationMode>>
    /\ NavKeep
    /\ UNCHANGED history

-----------------------------------------------------------------------------
(* AudioGenerator and InputBar.handleAudioGenerated *)

HandleGenerateAudio ==
    /\ EffectsFlushed
    /\ generating = <<>>
    /\ generating' = <<Closure>>
    /\ lastOp' = NoOp
    /\ UNCHANGED <<conversations, activeConversationId, isLoading, created, trips,
                   message, currentMessageIndex, isNavigationMode>>
    /\ NavKeep
    /\ UNCHANGED voiceVars
    /\ UNCHANGED history

HandleAudioGenerated ==
    /\ generating # <<>>
    /\ handleSendMessage(generating[1], TextAudio, "handleAudioGenerated")
    /\ generating' = <<>>
    /\ UNCHANGED <<activeConversationId, created, message,
                   currentMessageIndex, isNavigationMode>>
    /\ NavKeep
    /\ UNCHANGED voiceVars
    /\ UNCHANGED history

(* The onSendMessage prop called with any text by the render's own handler. *)
OnSendMessage(content) ==
    /\ handleSendMessage(Closure, content, "onSendMessage")
    /\ UNCHANGED <<activeConversationId, created, generating, message,
                   currentMessageIndex, isNavigationMode>>
    /\ NavKeep
    /\ UNCHANGED voiceVars
    /\ UNCHANGED history

-----------------------------------------------------------------------------
(* ConversationHistory: in-place rename and the drill-down view *)

(* The detail view replaces the list when the selected conversation exists. *)
DetailShown ==
    /\ history.selectedConversationId # Null
    /\ history.selectedConversationId \in Ids(conversations)

(* The edit input is rendered in the item of the conversation being edited. *)
Editing == ~DetailShown /\ history.editingId \in Ids(conversations)

selectedMessages == MessagesOf(conversations, history.selectedConversationId)

TitleOf(convs, id) ==
    convs[CHOOSE i \in 1..Len(convs) : convs[i].id = id].title

HandleStartEdit(id) ==
    /\ ~DetailShown
    /\ ~Editing
    /\ id \in Ids(conversations)
    /\ history' = [history EXCEPT !.editingId = id,
                                  !.editTitle = TitleOf(conversations, id)]
    /\ lastOp' = NoOp
    /\ UNCHANGED <<conversations, activeConversationId, isLoading, created, trips,
                   generating, message, currentMessageIndex, isNavigationMode>>
    /\ NavKeep
    /\ UNCHANGED voiceVars

HandleEditTitleChange(text) ==
    /\ Editing
    /\ text # history.editTitle
    /\ history' = [history EXCEPT !.editTitle = text]
    /\ lastOp' = NoOp
    /\ UNCHANGED <<conversations, activeConversationId, isLoading, created, trips,
                   generating, message, currentMessageIndex, isNavigationMode>>
    /\ NavKeep
    /\ UNCHANGED voiceVars

(* A save that passes the edit text as typed. *)
committedTitleRaw(editTitle) == editTitle

committedTitle(editTitle) == Trim(editTitle)

(* Enter in the edit input, or the input losing focus. *)
HandleSaveEdit ==
    /\ Editing
    /\ conversations' =
           IF history.editingId # Null /\ Trim(history.editTitle) # <<>>
           THEN renameConversation(conversations, history.editingId,
                                   committedTitle(history.editTitle))
           ELSE conversations
    /\ history' = [history EXCEPT !.editingId = Null, !.editTitle = <<>>]
    /\ lastOp' = Op("handleSaveEdit", history.editingId, history.editTitle)
    /\ UNCHANGED <<activeConversationId, isLoading, created, trips,
                   generating, message, currentMessageIndex, isNavigationMode>>
    /\ NavKeep
    /\ UNCHANGED voiceVars

(* Escape in the edit input. *)
HandleCancelEdit ==
    /\ Editing
    /\ history' = [history EXCEPT !.editingId = Null, !.editTitle = <<>>]
    /\ lastOp' = Op("handleCancelEdit", history.editingId, history.editTitle)
    /\ UNCHANGED <<conversations, activeConversationId, isLoading, created, trips,
                   generating, message, currentMessageIndex, isNavigationMode>>
    /\ NavKeep
    /\ UNCHANGED voiceVars

(* View details on an item of the list. *)
HandleSelectConversation(id) ==
    /\ ~DetailShown
    /\ ~Editing
    /\ id \in Ids(conversations)
    /\ history' = IF history.selectedConversationId = id
                  THEN [history EXCEPT !.selectedConversationId = Null]
                  ELSE [history EXCEPT !.selectedConversationId = id,
                                       !.currentMessageIndex = 0]
    /\ lastOp' = NoOp
    /\ UNCHANGED <<conversations, activeConversationId, isLoading, created, trips,
                   generating, message, currentMessageIndex, isNavigationMode>>
    /\ NavKeep
    /\ UNCHANGED voiceVars

(* The back button of the detail view. *)
CloseDetails ==
    /\ DetailShown
    /\ history' = [history EXCEPT !.selectedConversationId = Null]
    /\ lastOp' = NoOp
    /\ UNCHANGED <<conversations, activeConversationId, isLoading, created, trips,
                   generating, message, currentMessageIndex, isNavigationMode>>
    /\ NavKeep
    /\ UNCHANGED voiceVars

navigateMessage(direction, index, length) ==
    IF length = 0 THEN index
    ELSE IF direction = "up" /\ index > 0 THEN index - 1
    ELSE IF direction = "down" /\ index < length - 1 THEN index + 1
    ELSE index

(* The arrows of the detail view, disabled at index 0 and at length-1. *)
NavigateMessage(direction) ==
    /\ DetailShown
    /\ IF direction = "up"
       THEN history.currentMessageIndex # 0
       ELSE history.currentMessageIndex # Len(selectedMessages) - 1
    /\ history' = [history EXCEPT !.currentMessageIndex =
                       navigateMessage(direction, @, Len(selectedMessages))]
    /\ lastOp' = NoOp
    /\ UNCHANGED <<conversations, activeConversationId, isLoading, created, trips,
                   generating, message, currentMessageIndex, isNavigationMode>>
    /\ NavKeep
    /\ UNCHANGED voiceVars

(* The list view: the search box and the two groups it renders. *)
OnSearchChange(query) ==
    /\ EffectsFlushed
    /\ query # history.searchQuery
    /\ history' = [history EXCEPT !.searchQuery = query]
    /\ lastOp' = NoOp
    /\ UNCHANGED <<conversations, activeConversationId, isLoading, created, trips,
                   generating, message, currentMessageIndex, isNavigationMode>>
    /\ NavKeep
    /\ UNCHANGED voiceVars

filteredConversations(convs, searchQuery) ==
    SelectSeq(convs, LAMBDA conv :
        \/ Includes(toLowerCase(conv.title), toLowerCase(searchQuery))
        \/ Includes(toLowerCase(conv.preview), toLowerCase(searchQuery)))

pinnedConversations(convs, searchQuery) ==
    SelectSeq(filteredConversations(convs, searchQuery), LAMBDA conv : conv.isPinned)

regularConversations(convs, searchQuery) ==
    SelectSeq(filteredConversations(convs, searchQuery), LAMBDA conv : ~conv.isPinned)

(* The items of the list view from top to bottom. *)
Listed ==
    pinnedConversations(conversations, history.searchQuery)
        \o regularConversations(conversations, history.searchQuery)

-----------------------------------------------------------------------------
(* ChatWindow *)

navigateIndex(direction, index, length) ==
    IF direction = "up" THEN Max(0, index - 1) ELSE Min(length - 1, index + 1)

(* A navigation that starts from the first message. *)
startIndexFirst(length) == 0

startIndex(length) == length - 1

(* The controls are rendered when there are messages; outside navigation
   mode only the start button exists, inside it the arrows are disabled at
   the ends. *)
NavigateEnabled(direction) ==
    /\ Len(Messages) > 0
    /\ IF ~isNavigationMode THEN direction = "up"
       ELSE IF direction = "up" THEN currentMessageIndex # 0
       ELSE currentMessageIndex # Len(Messages) - 1

(* A handler that does not look at the number of messages. *)
nothingToNavigateNever(length) == FALSE

nothingToNavigate(length) == length = 0

(* The handler itself; op is the trace the caller leaves in lastOp. *)
navigateToMessage(direction, op) ==
    IF nothingToNavigate(Len(Messages))
    THEN /\ UNCHANGED <<currentMessageIndex, isNavigationMode, navObs>>
         /\ lastOp' = op
    ELSE IF currentMessageIndex = NoIndex
    THEN /\ currentMessageIndex' = startIndex(Len(Messages))
         /\ isNavigationMode' = TRUE
         /\ navObs' = [n |-> Len(Messages), ups |-> 0, down |-> 0]
         /\ lastOp' = op
    ELSE /\ currentMessageIndex' =
                navigateIndex(direction, currentMessageIndex, Len(Messages))
         /\ UNCHANGED isNavigationMode
         /\ navObs' =
              IF navObs.n = 0 THEN NavOff
              ELSE IF direction = "up" /\ navObs.ups >= 0 /\ navObs.down = 0
                      /\ navObs.ups < navObs.n
                   THEN [navObs EXCEPT !.ups = @ + 1]
              ELSE IF direction = "down" /\ navObs.ups = navObs.n - 1
                      /\ navObs.down = 0
                   THEN [navObs EXCEPT !.down = 1]
              ELSE [navObs EXCEPT !.ups = -1, !.down = 0]
         /\ lastOp' = op

(* A press of one of the rendered, enabled navigation buttons. *)
NavigateToMessage(direction) ==
    /\ EffectsFlushed
    /\ NavigateEnabled(direction)
    /\ navigateToMessage(direction, NoOp)
    /\ UNCHANGED <<conversations, activeConversationId, isLoading, created, trips,
                   generating, message>>
    /\ UNCHANGED voiceVars
    /\ UNCHANGED history

(* navigateToMessage called whatever the controls show. *)
CallNavigateToMessage(direction) ==
    /\ EffectsFlushed
    /\ navigateToMessage(direction, Op("navigateToMessage", Null, <<>>))
    /\ UNCHANGED <<conversations, activeConversationId, isLoading, created, trips,
                   generating, message>>
    /\ UNCHANGED voiceVars
    /\ UNCHANGED history

ExitNavigationMode ==
    /\ EffectsFlushed
    /\ Len(Messages) > 0
    /\ isNavigationMode
    /\ isNavigationMode' = FALSE
    /\ currentMessageIndex' = NoIndex
    /\ navObs' = NavOff
    /\ lastOp' = NoOp
    /\ UNCHANGED <<conversations, activeConversationId, isLoading, created, trips,
                   generating, message>>
    /\ UNCHANGED voiceVars
    /\ UNCHANGED history

(* The auto-scroll effect of the render a step commits: it runs when one of
   its dependencies (messages, isTyping, isNavigationMode) changed, and
   scrolls to the bottom under its guard. *)
autoScrollGuardAlways(navigationMode) == TRUE

autoScrollGuard(navigationMode) == ~navigationMode

AutoScrollRuns ==
    \/ Messages' # Messages
    \/ isLoading' # isLoading
    \/ isNavigationMode' # isNavigationMode

AutoScrollFires == AutoScrollRuns /\ autoScrollGuard(isNavigationMode')

-----------------------------------------------------------------------------
(* Specifications.  The handlers are grouped by component; Spec is the whole
   program, the others run the components a property is about. *)

StoreOps ==
    \/ Bootstrap
    \/ CreateNewConversation
    \/ \E id \in Ids(conversations) : SelectConversation(id)
    \/ \E id \in Ids(conversations) : DeleteConversation(id)
    \/ HandleClearHistory

MetaOps ==
    \/ \E id \in Ids(conversations), newTitle \in Titles : RenameConversation(id, newTitle)
    \/ \E id \in Ids(conversations) : PinConversation(id)

SubmitOps ==
    \/ \E text \in Drafts : HandleTextareaChange(text)
    \/ HandleSubmit

KeyOps == \E shiftKey \in BOOLEAN : HandleKeyDown(shiftKey)

VoiceOps ==
    \/ HandleStartListening
    \/ RecognitionStarts
    \/ HandleStopListening
    \/ \E result \in {<<TextSpoken, <<>>>>, <<<<>>, TextInterim>>} :
           OnResult(result[1], result[2])
    \/ RecognitionEnds

EditOps ==
    \/ \E id \in Ids(conversations) : HandleStartEdit(id)
    \/ \E text \in EditTexts : HandleEditTitleChange(text)
    \/ HandleSaveEdit
    \/ HandleCancelEdit

DrillOps ==
    \/ \E id \in Ids(conversations) : HandleSelectConversation(id)
    \/ CloseDetails
    \/ \E direction \in {"up", "down"} : NavigateMessage(direction)

AudioOps ==
    \/ HandleGenerateAudio
    \/ HandleAudioGenerated

AsyncOps ==
    \/ \E t \in 1..Len(trips) : TimerFires(t)
    \/ \E t \in 1..Len(trips) : CallAIResolves(t, TextReply)
    \/ \E t \in 1..Len(trips) : CallAIRejects(t)

NavOps ==
    \/ \E direction \in {"up", "down"} : NavigateToMessage(direction)
    \/ ExitNavigationMode

(* The outcomes of a capture that the microphone and the recognition
   service decide. *)
CaptureOps ==
    \/ MicrophoneDenied
    \/ OnError

Next ==
    \/ StoreOps \/ MetaOps \/ EditOps \/ DrillOps
    \/ SubmitOps \/ KeyOps \/ VoiceOps \/ CaptureOps \/ AudioOps \/ AsyncOps \/ NavOps
    \/ \E query \in Queries \cup {<<>>} : OnSearchChange(query)
    \/ \E confirm \in BOOLEAN : SettingsHandleClearHistory(confirm)

Spec == Init /\ [][Next]_vars

(* The conversation store under the conversation browser's operations. *)
NextStore == StoreOps \/ MetaOps

SpecStore == Init /\ [][NextStore]_vars

(* The round trips of handleSendMessage from both of its callers. *)
NextSend == StoreOps \/ SubmitOps \/ AudioOps \/ AsyncOps

SpecSend == Init /\ [][NextSend]_vars

(* The orchestrator alone: its onSendMessage prop called with any text. *)
NextContract ==
    \/ StoreOps
    \/ AsyncOps
    \/ \E content \in Contents : OnSendMessage(content)

SpecContract == Init /\ [][NextContract]_vars

(* The thread view over a store whose messages change under it. *)
NextNav == StoreOps \/ SubmitOps \/ AsyncOps \/ NavOps

SpecNav == Init /\ [][NextNav]_vars

(* The store functions called on their own over the stores that bootstrap,
   create, pin and rename build. *)
NextReplace ==
    \/ Bootstrap
    \/ CreateNewConversation
    \/ \E id \in Ids(conversations) : PinConversation(id)
    \/ \E id \in Ids(conversations) : RenameConversation(id, <<"x">>)
    \/ \E id \in Ids(conversations) \cup {MissingId}, newMessages \in MessageLists :
           UpdateConversationMessages(id, newMessages)

SpecReplace == Init /\ [][NextReplace]_vars

NextMetadata ==
    \/ Bootstrap
    \/ CreateNewConversation
    \/ \E id \in Ids(conversations) : PinConversation(id)
    \/ \E id \in Ids(conversations) \cup {MissingId}, lastMessage \in LastMessages :
           UpdateConversationMetadata(id, lastMessage)

SpecMetadata == Init /\ [][NextMetadata]_vars

(* The in-place rename of the conversation browser over the store. *)
NextEdit == StoreOps \/ EditOps \/ \E id \in Ids(conversations) : PinConversation(id)

SpecEdit == Init /\ [][NextEdit]_vars

(* The drill-down view of the conversation browser over a store whose
   messages change under it. *)
NextDrill == StoreOps \/ SubmitOps \/ AsyncOps \/ DrillOps

SpecDrill == Init /\ [][NextDrill]_vars

(* The input bar over a store that holds the bootstrap conversation; the
   timers of the sends stay pending. *)
NextInput ==
    \/ Bootstrap
    \/ SubmitOps
    \/ KeyOps
    \/ VoiceOps
    \/ \E t \in 1..Len(trips) : CallAIResolves(t, TextReply)

SpecInput == Init /\ [][NextInput]_vars

(* The settings dialog over a store that holds pinned conversations and
   conversations with messages. *)
NextClear ==
    \/ StoreOps
    \/ \E id \in Ids(conversations) : PinConversation(id)
    \/ SubmitOps
    \/ \E t \in 1..Len(trips) : TimerFires(t)
    \/ \E t \in 1..Len(trips) : CallAIResolves(t, TextReply)
    \/ \E confirm \in BOOLEAN : SettingsHandleClearHistory(confirm)

SpecClear == Init /\ [][NextClear]_vars

(* The list view of the conversation browser under a changing search box. *)
NextSearch ==
    \/ StoreOps
    \/ MetaOps
    \/ \E query \in Queries \cup {<<>>} : OnSearchChange(query)

SpecSearch == Init /\ [][NextSearch]_vars

(* The round trips of the input bar and of the audio generator, every
   service call of which completes: fetch settles, and the rest of
   handleSendMessage runs when it has.  The status timers, which do not
   touch isLoading, are left pending. *)
NextLoad ==
    \/ Bootstrap
    \/ SubmitOps
    \/ AudioOps
    \/ \E t \in 1..Len(trips) : CallAIResolves(t, TextReply)
    \/ \E t \in 1..Len(trips) : CallAIRejects(t)

SpecLoad ==
    /\ Init
    /\ [][NextLoad]_vars
    /\ \A t \in 1..(MaxSends + MaxAudio) :
           WF_vars(CallAIResolves(t, TextReply) \/ CallAIRejects(t))

(* The store with round trips in flight; the bootstrap effect runs after
   every commit that needs it, as React runs the effects of a commit. *)
NextBoot == StoreOps \/ SubmitOps \/ AsyncOps

SpecBoot == Init /\ [][NextBoot]_vars /\ WF_vars(Bootstrap)

(* Titles under the in-place rename of the conversation browser and the
   metadata updates, those of successful sends and direct calls; the timers
   of the sends stay pending. *)
NextTitle ==
    \/ Bootstrap
    \/ CreateNewConversation
    \/ EditOps
    \/ SubmitOps
    \/ \E t \in 1..Len(trips) : CallAIResolves(t, TextReply)
    \/ \E id \in Ids(conversations) : UpdateConversationMetadata(id, TextFive)

SpecTitle == Init /\ [][NextTitle]_vars

(* Voice capture into the draft of the input bar. *)
NextVoice ==
    \/ Bootstrap
    \/ \E text \in Drafts : HandleTextareaChange(text)
    \/ VoiceOps
    \/ CaptureOps

SpecVoice == Init /\ [][NextVoice]_vars

(* The thread view alone: its handlers called in any state of the store. *)
ThreadOps ==
    \/ \E direction \in {"up", "down"} : CallNavigateToMessage(direction)
    \/ ExitNavigationMode

NextThread == StoreOps \/ SubmitOps \/ AsyncOps \/ ThreadOps

SpecThread == Init /\ [][NextThread]_vars

-----------------------------------------------------------------------------
(* Properties of the conversation store *)

(* C1: there is an active conversation id if and only if the collection is
   not empty, and the active id is the id of a conversation of the
   collection, whatever pin, rename, delete, select, create and clear
   operations have run. *)
C1_ActiveInvariant ==
    /\ (activeConversationId # Null) <=> (conversations # <<>>)
    /\ activeConversationId # Null =>
           \E i \in 1..Len(conversations) : conversations[i].id = activeConversationId

(* The active conversation was deleted while a renamed and a pinned
   conversation remained. *)
C1_Witness ==
    /\ lastOp.op = "deleteConversation"
    /\ lastOp.id = lastOp.active
    /\ \E i \in 1..Len(conversations) :
           conversations[i].isPinned /\ conversations[i].title = <<"x">>
    /\ activeConversationId \in Ids(conversations)

(* C8: deleting the active conversation makes the first conversation that
   remains, in the order of the collection, the active one, or none when
   nothing remains; deleting another conversation leaves the active id. *)
C8_DeleteSelectsFirst ==
    [][\A id \in Ids(conversations) :
         DeleteConversation(id) =>
            LET remaining == SelectSeq(conversations, LAMBDA c : c.id # id)
            IN  IF id # activeConversationId
                THEN activeConversationId' = activeConversationId
                ELSE IF remaining = <<>>
                     THEN activeConversationId' = Null
                     ELSE activeConversationId' = remaining[1].id]_vars

(* The active conversation was deleted and the first of the others took over. *)
C8_Witness ==
    /\ lastOp.op = "deleteConversation"
    /\ lastOp.id = lastOp.active
    /\ conversations # <<>>
    /\ activeConversationId = conversations[1].id

-----------------------------------------------------------------------------
(* Properties of the handleSendMessage round trip *)

Target(t) == trips[t].activeConversationId

(* Both asynchronous steps of trip t have run. *)
RoundTripDone(t) == trips[t].timer = "fired" /\ trips[t].call # "pending"

(* The status with which the user message of trip t shows in its target. *)
StatusShown(t) ==
    LET msgs == MessagesOf(conversations, Target(t))
    IN  IF \E i \in 1..Len(msgs) : msgs[i].id = trips[t].userMessage.id
        THEN msgs[CHOOSE i \in 1..Len(msgs) : msgs[i].id = trips[t].userMessage.id].status
        ELSE "absent"

(* C2, as amended: once the timer and the completion of a round trip have
   both run, and while that round trip is the last writer of its target
   conversation, the conversation shows the user message as sent on the
   success path and as sent or error on the failure path, never as sending. *)
C2_NeverLeftSending ==
    \A t \in 1..Len(trips) :
        RoundTripDone(t) /\ trips[t].last =>
            /\ trips[t].call = "resolved" => StatusShown(t) = "sent"
            /\ trips[t].call = "rejected" => StatusShown(t) \in {"sent", "error"}

(* A round trip failed after its timer had fired: the message shows error. *)
C2_Witness ==
    \E t \in 1..Len(trips) :
        /\ RoundTripDone(t) /\ trips[t].last
        /\ trips[t].call = "rejected"
        /\ StatusShown(t) = "error"

(* C2 as stated: sent on both paths. *)
C2_AlwaysSent ==
    \A t \in 1..Len(trips) :
        RoundTripDone(t) /\ trips[t].last => StatusShown(t) = "sent"

(* The text before the fourth space, with an ellipsis when there is one. *)
SpacesOf(text) == {i \in 1..Len(text) : text[i] = " "}

FirstFourWords(text) ==
    IF Cardinality(SpacesOf(text)) >= 4
    THEN LET k == CHOOSE i \in SpacesOf(text) :
                      Cardinality({j \in SpacesOf(text) : j < i}) = 3
         IN  SubSeq(text, 1, k - 1) \o <<".", ".", ".">>
    ELSE text

(* C3: when the service call succeeded and the round trip is complete, the
   target holds the messages it held at the call, then the user message as
   sent, then one assistant message with the response; and the successful
   completion turns a title that is still New Conversation into the first
   four words of the text. *)
C3_SuccessAppendsTwo ==
    [][\A t \in 1..Len(trips) :
         /\ (trips[t].call = "pending" /\ trips'[t].call = "resolved") =>
               \A i \in 1..Len(conversations) :
                   conversations[i].id = Target(t)
                   /\ conversations[i].title = NewConversationTitle
                   => conversations'[i].title = FirstFourWords(trips[t].content)
         /\ (/\ ~RoundTripDone(t)
             /\ trips'[t].timer = "fired"
             /\ trips'[t].call = "resolved"
             /\ trips'[t].last) =>
               LET msgs == MessagesOf(conversations', Target(t))
                   k == Len(trips[t].before)
               IN  /\ Len(msgs) = k + 2
                   /\ SubSeq(msgs, 1, k) = trips[t].before
                   /\ msgs[k + 1].id = trips[t].userMessage.id
                   /\ msgs[k + 1].status = "sent"
                   /\ msgs[k + 2].type = "assistant"
                   /\ msgs[k + 2].content = TextReply]_vars

(* C4: the result insert of a round trip is applied after its flip to sent. *)
C4_FixedOrder ==
    \A t \in 1..Len(trips) :
        trips[t].call # "pending" => trips[t].timer = "fired"

(* C5: after a failed call, once the round trip is complete and while it is
   the last writer of its target, the user message shows error, there is
   no assistant message of that round trip, a notice was raised and the
   service was called once. *)
C5_FailureMarksError ==
    \A t \in 1..Len(trips) :
        RoundTripDone(t) /\ trips[t].call = "rejected" /\ trips[t].last =>
            /\ StatusShown(t) = "error"
            /\ \A i \in 1..Len(MessagesOf(conversations, Target(t))) :
                   MessagesOf(conversations, Target(t))[i].id # AssistantIds[t]
            /\ trips[t].toast
            /\ trips[t].calls = 1

(* C6: a step of a round trip changes the message list of no conversation
   but the one that was active when handleSendMessage was called. *)
C6_WritesOnlyInvokedConversation ==
    [][\A t \in 1..Len(trips') :
         LET started == t > Len(trips)
             stepped == IF started THEN TRUE
                        ELSE \/ trips'[t].timer # trips[t].timer
                             \/ trips'[t].call # trips[t].call
         IN  stepped =>
               \A i \in 1..Len(conversations) :
                   conversations'[i].messages # conversations[i].messages =>
                       /\ conversations[i].id =
                              (IF started THEN activeConversationId ELSE Target(t))
                       /\ trips'[t].atActive
                       /\ trips'[t].live]_vars

(* C7: handleSendMessage called with a text of spaces only, or with no
   active conversation, changes no conversation, starts no service call
   and leaves isLoading. *)
C7_BlankIsNoOp ==
    [][(/\ lastOp'.op = "onSendMessage"
        /\ \/ \A i \in 1..Len(lastOp'.text) : lastOp'.text[i] = " "
           \/ activeConversationId = Null)
       => UNCHANGED <<conversations, isLoading, trips>>]_vars

(* A blank text was sent to an active conversation that shows messages. *)
C7_Witness ==
    /\ lastOp.op = "onSendMessage"
    /\ lastOp.text = <<" ">>
    /\ lastOp.active # Null
    /\ Len(Messages) > 0

-----------------------------------------------------------------------------
(* Properties of the thread view *)

(* C9: in navigation mode the cursor is an index of the displayed sequence. *)
C9_CursorInRange ==
    isNavigationMode =>
        0 <= currentMessageIndex /\ currentMessageIndex <= Len(Messages) - 1

(* C10: starting navigation over N messages puts the cursor at N-1, a step
   up moves it to max(0, cursor-1) and a step down to min(N-1, cursor+1);
   while N stays the same the cursor stays within 0..N-1, k steps up from
   the start leave it at max(0, N-1-k), and N-1 steps up followed by one
   step down leave it at 1. *)
C10_Observed ==
    navObs.n # 0 =>
        /\ isNavigationMode
        /\ Len(Messages) = navObs.n
        /\ 0 <= currentMessageIndex /\ currentMessageIndex <= navObs.n - 1
        /\ (navObs.ups >= 0 /\ navObs.down = 0) =>
               currentMessageIndex = Max(0, navObs.n - 1 - navObs.ups)
        /\ navObs.down = 1 => (navObs.n >= 2 /\ currentMessageIndex = 1)

C10_BoundedSteps ==
    /\ []C10_Observed
    /\ [][\A direction \in {"up", "down"} :
            NavigateToMessage(direction) =>
               IF ~isNavigationMode
               THEN currentMessageIndex' = Len(Messages) - 1
               ELSE IF direction = "up"
                    THEN currentMessageIndex' = Max(0, currentMessageIndex - 1)
                    ELSE currentMessageIndex' =
                             Min(Len(Messages) - 1, currentMessageIndex + 1)]_vars

(* N-1 steps up and one step down were taken over N >= 2 messages. *)
C10_Witness ==
    /\ navObs.n >= 2
    /\ navObs.ups = navObs.n - 1
    /\ navObs.down = 1
    /\ currentMessageIndex = 1

(* C11: a step that leaves the thread view in navigation mode fires no
   auto-scroll, whether the message sequence or the typing flag changed; the
   auto-scroll fires only in steps that end outside navigation mode. *)
C11_NoAutoScrollInNavigation ==
    [][/\ AutoScrollFires => ~isNavigationMode'
       /\ (/\ isNavigationMode /\ isNavigationMode'
           /\ (Messages' # Messages \/ isLoading' # isLoading))
          => ~AutoScrollFires]_vars

(* The message sequence grew to two messages under a navigation started
   over one. *)
C11_Witness ==
    /\ isNavigationMode
    /\ navObs.n = 0
    /\ Len(Messages) = 2

(* C12: navigation mode is entered only by navigateToMessage, called with no
   cursor over at least one message; called over no message it changes
   nothing; exitNavigationMode leaves navigation mode, clears the cursor and
   the bottom is scrolled to. *)
C12_EnterAndExit ==
    [][/\ (~isNavigationMode /\ isNavigationMode') =>
              /\ lastOp'.op = "navigateToMessage"
              /\ Len(Messages) >= 1
              /\ currentMessageIndex = NoIndex
              /\ currentMessageIndex' = Len(Messages) - 1
       /\ (lastOp'.op = "navigateToMessage" /\ Len(Messages) = 0) =>
              UNCHANGED <<currentMessageIndex, isNavigationMode, conversations,
                          activeConversationId, isLoading>>
       /\ ExitNavigationMode =>
              /\ ~isNavigationMode'
              /\ currentMessageIndex' = NoIndex
              /\ AutoScrollFires]_vars

(* Navigation was started over a sequence of messages. *)
C12_Witness ==
    /\ lastOp.op = "navigateToMessage"
    /\ isNavigationMode
    /\ Len(Messages) >= 1
    /\ currentMessageIndex = Len(Messages) - 1
    /\ navObs.ups = 0 /\ navObs.n = Len(Messages)

-----------------------------------------------------------------------------
(* Properties of the input bar *)

(* C13: a step in which the send button or the Enter key sends a message
   starts from a state in which the draft is not blank, no request is in
   flight and voice capture is not active. *)
C13_SubmitGuarded ==
    [][lastOp'.op \in {"handleSubmit", "handleKeyDown"} =>
          /\ Trim(message) # <<>>
          /\ ~isLoading
          /\ ~isListening]_vars

(* A draft dictated by voice was sent with the Enter key after the capture
   had ended. *)
C13_Witness ==
    /\ lastOp.op = "handleKeyDown"
    /\ lastOp.text = TextSpoken
    /\ ~isListening
    /\ Len(trips) = 1 /\ trips[1].content = TextSpoken

(* C14: a submit that sends passes the trimmed draft to onSendMessage, once,
   and empties the draft; Enter without Shift on a draft that is not blank
   sends; Enter with Shift sends nothing and the draft gets a line break. *)
C14_SubmitEmitsTrimmed ==
    [][/\ lastOp'.op \in {"handleSubmit", "handleKeyDown"} =>
              /\ lastOp'.text = Trim(message)
              /\ Len(trips') = Len(trips) + 1
              /\ trips'[Len(trips')].content = Trim(message)
              /\ message' = <<>>
       /\ (HandleKeyDown(FALSE) /\ Trim(message) # <<>>) =>
              lastOp'.op = "handleKeyDown"
       /\ HandleKeyDown(TRUE) =>
              /\ UNCHANGED <<trips, conversations, isLoading>>
              /\ message' = message \o <<"\n">>]_vars

(* The draft typed with spaces around it was sent trimmed by the Enter key. *)
C14_Witness ==
    /\ lastOp.op = "handleKeyDown"
    /\ lastOp.text = <<"h", "i">>
    /\ message = <<>>
    /\ Len(trips) = 1 /\ trips[1].content = <<"h", "i">>

(* C15: a result with a final transcript t turns the draft d into t when d
   is empty and into d, a space and t otherwise, sends nothing and ends the
   capture; a result with interim text only leaves the draft and the
   capture as they are. *)
C15_TranscriptAppends ==
    [][lastOp'.op = "onresult" =>
          IF lastOp'.text # <<>>
          THEN /\ message' = IF message = <<>> THEN lastOp'.text
                              ELSE message \o <<" ">> \o lastOp'.text
               /\ ~isListening'
               /\ UNCHANGED <<trips, conversations, isLoading>>
          ELSE UNCHANGED <<message, isListening, trips, conversations, isLoading>>]_vars

(* A final transcript arrived over a typed draft. *)
C15_Witness ==
    /\ lastOp.op = "onresult"
    /\ lastOp.text = TextSpoken
    /\ message = TextPadded \o <<" ">> \o TextSpoken
    /\ ~isListening

-----------------------------------------------------------------------------
(* Properties of the conversation browser *)

NoEmptyTitle == \A i \in 1..Len(conversations) : conversations[i].title # <<>>

(* C16: saving an edit (Enter or loss of focus) sets the title of the edited
   conversation to the trimmed edit text when that text is not blank and
   leaves it otherwise; cancelling (Escape) leaves it; both leave the other
   conversations alone and end the edit; no title is ever empty. *)
C16_RenameRoundTrip ==
    /\ []NoEmptyTitle
    /\ [][/\ lastOp'.op = "handleSaveEdit" =>
               /\ TitleOf(conversations', lastOp'.id) =
                      IF Trim(lastOp'.text) # <<>> THEN Trim(lastOp'.text)
                      ELSE TitleOf(conversations, lastOp'.id)
               /\ \A i \in 1..Len(conversations) :
                      conversations[i].id # lastOp'.id =>
                          conversations'[i] = conversations[i]
               /\ history'.editingId = Null
          /\ lastOp'.op = "handleCancelEdit" =>
               /\ conversations' = conversations
               /\ history'.editingId = Null]_vars

(* An edit text with spaces around it was saved as the title without them. *)
C16_Witness ==
    /\ lastOp.op = "handleSaveEdit"
    /\ lastOp.text = <<" ", "x", " ">>
    /\ lastOp.id \in Ids(conversations)
    /\ TitleOf(conversations, lastOp.id) = <<"x">>
    /\ history.editingId = Null

(* C17: selecting a conversation for the detail view sets the preview
   cursor to 0; whenever the detail view shows a conversation with messages
   the cursor is an index of them; a step up at 0 and a step down at the
   last index leave it. *)
C17_PreviewCursorInRange ==
    /\ [](DetailShown /\ Len(selectedMessages) >= 1 =>
             /\ 0 <= history.currentMessageIndex
             /\ history.currentMessageIndex <= Len(selectedMessages) - 1)
    /\ [][/\ \A id \in Ids(conversations) :
                HandleSelectConversation(id) => history'.currentMessageIndex = 0
          /\ \A direction \in {"up", "down"} :
                (NavigateMessage(direction) /\ Len(selectedMessages) >= 1
                 /\ history.currentMessageIndex \in 0..(Len(selectedMessages) - 1)) =>
                    /\ 0 <= history'.currentMessageIndex
                    /\ history'.currentMessageIndex <= Len(selectedMessages) - 1]_vars

-----------------------------------------------------------------------------
(* Properties of the store functions *)

MessageIds(msgs) == [i \in 1..Len(msgs) |-> msgs[i].id]

(* The ids of before occur in after, in the same order. *)
KeepsMessages(before, after) ==
    LET kept == {before[i].id : i \in 1..Len(before)}
    IN  SelectSeq(MessageIds(after), LAMBDA id : id \in kept) = MessageIds(before)

(* C18: a conversation that is in the collection before and after a step
   holds after it every message it held before, in the same order; messages
   go away only with their conversation, by deletion or clear history. *)
C18_MessagesNeverRemoved ==
    [][\A i \in 1..Len(conversations), j \in 1..Len(conversations') :
          conversations'[j].id = conversations[i].id =>
              KeepsMessages(conversations[i].messages, conversations'[j].messages)]_vars

(* C19: updateConversationMessages(id, msgs) gives the conversation with
   that id the messages msgs and leaves its other fields, the other
   conversations, the order and the active id; with an id that no
   conversation has the store is unchanged. *)
C19_ReplacesOnlyTarget ==
    [][\A id \in Ids(conversations) \cup {MissingId}, msgs \in MessageLists :
          UpdateConversationMessages(id, msgs) =>
              /\ Len(conversations') = Len(conversations)
              /\ activeConversationId' = activeConversationId
              /\ \A i \in 1..Len(conversations) :
                     IF conversations[i].id = id
                     THEN conversations'[i] =
                              [id |-> id,
                               title |-> conversations[i].title,
                               isPinned |-> conversations[i].isPinned,
                               preview |-> conversations[i].preview,
                               messages |-> msgs]
                     ELSE conversations'[i] = conversations[i]
              /\ id \notin Ids(conversations) => conversations' = conversations]_vars

(* The messages of one of two conversations were replaced by two messages. *)
C19_Witness ==
    /\ lastOp.op = "updateConversationMessages"
    /\ Len(conversations) >= 2
    /\ \E i, j \in 1..Len(conversations) :
           /\ conversations[i].id = lastOp.id
           /\ Len(conversations[i].messages) = 2
           /\ conversations[i].isPinned
           /\ conversations[i].title # NewConversationTitle
           /\ j # i /\ conversations[j].messages = <<>>

(* C20: updateConversationMetadata(id, text) sets the preview of that
   conversation to text when text has at most 50 characters and to its
   first 50 characters and an ellipsis otherwise; it sets the title to the
   first four words of text, with an ellipsis when words are left, only when
   the title is New Conversation; messages, pin and the other conversations
   are unchanged. *)
C20_MetadataUpdate ==
    [][lastOp'.op = "updateConversationMetadata" =>
          /\ Len(conversations') = Len(conversations)
          /\ \A i \in 1..Len(conversations) :
                 IF conversations[i].id = lastOp'.id
                 THEN /\ conversations'[i].preview =
                            IF Len(lastOp'.text) <= 50 THEN lastOp'.text
                            ELSE SubSeq(lastOp'.text, 1, 50) \o <<".", ".", ".">>
                      /\ conversations'[i].title =
                            IF conversations[i].title = NewConversationTitle
                            THEN FirstFourWords(lastOp'.text)
                            ELSE conversations[i].title
                      /\ conversations'[i].messages = conversations[i].messages
                      /\ conversations'[i].isPinned = conversations[i].isPinned
                      /\ conversations'[i].id = conversations[i].id
                 ELSE conversations'[i] = conversations[i]]_vars

(* A text of more than 50 characters was recorded for a conversation whose
   title had been derived before from a text of five words. *)
C20_Witness ==
    /\ lastOp.op = "updateConversationMetadata"
    /\ lastOp.text = TextAudio
    /\ \E i \in 1..Len(conversations) :
           /\ conversations[i].id = lastOp.id
           /\ conversations[i].title = <<"a", " ", "b", " ", "c", " ", "d", ".", ".", ".">>
           /\ conversations[i].isPinned
           /\ Len(conversations[i].preview) = 53

-----------------------------------------------------------------------------
(* Properties of conversation creation and of clear history *)

(* C21: createNewConversation puts one conversation with no messages, not
   pinned and titled New Conversation at the front of the collection, makes
   it the active one, and leaves the conversations that were there as they
   were and in their order. *)
C21_CreateInsertsFront ==
    [][created' # created =>
          /\ Len(conversations') = Len(conversations) + 1
          /\ conversations'[1].messages = <<>>
          /\ conversations'[1].isPinned = FALSE
          /\ conversations'[1].title = NewConversationTitle
          /\ activeConversationId' = conversations'[1].id
          /\ \A i \in 1..Len(conversations) :
                 conversations'[i + 1] = conversations[i]]_vars

(* A conversation was created in front of a pinned, renamed conversation
   that holds two messages. *)
C21_Witness ==
    /\ created = 1
    /\ Len(conversations) = 2
    /\ conversations[1].id = ConvIds[1]
    /\ conversations[1].messages = <<>>
    /\ activeConversationId = ConvIds[1]
    /\ conversations[2].id = DefaultId
    /\ conversations[2].isPinned
    /\ conversations[2].title = <<"x">>
    /\ Len(conversations[2].messages) = 2

(* C22: clear history leaves no conversation in the collection and no active
   id, whatever the collection held. *)
C22_ClearEmpties ==
    [][lastOp'.op = "handleClearHistory" =>
          /\ conversations' = <<>>
          /\ activeConversationId' = Null]_vars

(* The history was cleared while it held a pinned conversation with messages
   and a second conversation. *)
C22_Witness ==
    /\ lastOp.op = "handleClearHistory"
    /\ conversations = <<>>
    /\ activeConversationId = Null
    /\ created = 1
    /\ Len(trips) = 1 /\ trips[1].call = "resolved" /\ ~trips[1].live

-----------------------------------------------------------------------------
(* Properties of the list view *)

SameLetter(a, b) ==
    a = b \/ \E k \in 1..Len(Capitals) : {a, b} = {Capitals[k], Letters[k]}

(* q occurs in s, capitals and small letters taken as equal. *)
Occurs(q, s) ==
    \E k \in 0..(Len(s) - Len(q)) :
        \A i \in 1..Len(q) : SameLetter(s[k + i], q[i])

PositionIn(convs, id) == CHOOSE i \in 1..Len(convs) : convs[i].id = id

(* C23: the list view shows the conversations whose title or preview holds
   the search text, capitals and small letters taken as equal, each of them
   once and no other; the pinned ones come before the others, and each of
   the two groups is in the order of the store. *)
C23_ListIsFilteredPartition ==
    /\ \A i \in 1..Len(conversations) :
           Cardinality({j \in 1..Len(Listed) : Listed[j] = conversations[i]}) =
               IF \/ Occurs(history.searchQuery, conversations[i].title)
                  \/ Occurs(history.searchQuery, conversations[i].preview)
               THEN 1 ELSE 0
    /\ \A j \in 1..Len(Listed) : Listed[j].id \in Ids(conversations)
    /\ \A j, k \in 1..Len(Listed) :
           j < k =>
              /\ Listed[j].isPinned \/ ~Listed[k].isPinned
              /\ Listed[j].isPinned = Listed[k].isPinned =>
                     PositionIn(conversations, Listed[j].id)
                         < PositionIn(conversations, Listed[k].id)

(* A search in small letters lists a pinned conversation, found by the
   capital of its title, above an unpinned one that precedes it in the
   store. *)
C23_Witness ==
    /\ history.searchQuery = <<"n", "e", "w">>
    /\ Len(conversations) = 2
    /\ conversations[2].isPinned /\ ~conversations[1].isPinned
    /\ conversations[2].title = NewConversationTitle
    /\ conversations[2].preview = WelcomePreview
    /\ Listed = <<conversations[2], conversations[1]>>

-----------------------------------------------------------------------------
(* Properties of voice capture *)

(* C24: when the microphone is denied at the start of a capture, a notice is
   raised and the voice input is idle again: isListening is false and no
   recognition session runs. *)
C24_DeniedReturnsToIdle ==
    capture.notice = "denied" => (~isListening /\ recognition = "idle")

(* C25: once a capture has stopped, by the stop button, by a final
   transcript or by a recognition error, its microphone stream is released,
   no audio-level frame is requested, the capture state is idle, and no
   later result of the recognition changes the draft. *)
C25_StopReleasesCapture ==
    /\ [](~isListening => (capture.stream # "live" /\ ~capture.polling))
    /\ [][(~isListening /\ lastOp'.op = "onresult") => message' = message]_vars

-----------------------------------------------------------------------------
(* Properties of the loading flag *)

(* C26: the completion of a service call, failed or not, leaves isLoading
   false; isLoading becomes true only in a step that starts a round trip, so
   it stays false until the next send; and, the service calls completing,
   a loading input bar is eventually not loading again. *)
C26_ReturnsToIdle ==
    /\ isLoading ~> ~isLoading
    /\ [][/\ \A t \in 1..Len(trips) :
                (trips[t].call = "pending" /\ trips'[t].call # "pending")
                    => ~isLoading'
          /\ (~isLoading /\ isLoading') => Len(trips') = Len(trips) + 1]_vars

(* A service call failed and the input bar takes a draft again. *)
C26_Witness ==
    /\ \E t \in 1..Len(trips) : trips[t].call = "rejected" /\ trips[t].toast
    /\ ~isLoading
    /\ ~textareaDisabled(isLoading, isListening)
    /\ message = TextPadded

-----------------------------------------------------------------------------
(* Properties of the bootstrap conversation *)

BootstrapConversation ==
    [id |-> DefaultId, title |-> NewConversationTitle, isPinned |-> FALSE,
     preview |-> WelcomePreview, messages |-> <<>>]

(* C27: an empty collection, at startup, after the deletion of the last
   conversation or after clear history, leads to a collection that holds the
   bootstrap conversation, with no messages and the title New Conversation,
   as the active one; and the bootstrap conversation comes into a collection
   only when the collection is empty. *)
C27_BootstrapWhenEmpty ==
    /\ (conversations = <<>>) ~>
           (conversations = <<BootstrapConversation>>
            /\ activeConversationId = DefaultId)
    /\ [][(DefaultId \in Ids(conversations') /\ DefaultId \notin Ids(conversations))
              => (conversations = <<>>)]_vars

(* The bootstrap conversation was created again after the first one, the
   target of a round trip, had been removed. *)
C27_Witness ==
    /\ conversations = <<BootstrapConversation>>
    /\ activeConversationId = DefaultId
    /\ Len(trips) = 1
    /\ trips[1].activeConversationId = DefaultId
    /\ ~trips[1].live

-----------------------------------------------------------------------------
(* Properties of round trips in flight *)

(* The service call of trip t has been started and has not completed. *)
InFlight(t) == trips[t].call = "pending"

(* C28: at most one round trip is in flight; a round trip starts only when
   isLoading is false, whether it comes from a text submit or from the audio
   callback; and isLoading is true while a round trip is in flight. *)
C28_OneRoundTrip ==
    /\ [](Cardinality({t \in 1..Len(trips) : InFlight(t)}) <= 1)
    /\ []((\E t \in 1..Len(trips) : InFlight(t)) => isLoading)
    /\ [][Len(trips') > Len(trips) => ~isLoading]_vars

(* C29: once the target of a round trip has been deleted or cleared, the
   timer and the completion of that round trip change no conversation, the
   bootstrap conversation created after the removal included. *)
C29_RemovedTargetUntouched ==
    [][\A t \in 1..Len(trips) :
          (/\ ~trips[t].live
           /\ \/ trips'[t].timer # trips[t].timer
              \/ trips'[t].call # trips[t].call)
          => conversations' = conversations]_vars

-----------------------------------------------------------------------------
(* Properties of titles *)

(* C30, as amended: a title other than New Conversation, and so every title
   a rename has committed except that one, is changed by no step but a
   rename: no metadata update, of a successful send or called directly,
   changes it. *)
C30_RenamedTitleKept ==
    [][\A i \in 1..Len(conversations), j \in 1..Len(conversations') :
          (/\ conversations'[j].id = conversations[i].id
           /\ conversations[i].title # NewConversationTitle
           /\ lastOp'.op # "handleSaveEdit")
          => conversations'[j].title = conversations[i].title]_vars

(* A metadata update with a text of five words ran on a conversation that a
   rename had titled x: the title is x and the preview is the text. *)
C30_Witness ==
    /\ lastOp.op = "updateConversationMetadata"
    /\ lastOp.text = TextFive
    /\ lastOp.id \in Ids(conversations)
    /\ TitleOf(conversations, lastOp.id) = <<"x">>
    /\ \E i \in 1..Len(conversations) :
           conversations[i].id = lastOp.id /\ conversations[i].preview = TextFive

(* C30 as stated: the step that follows the commit of a rename, unless it is
   a rename, leaves the committed title, whatever that title is. *)
C30_CommittedTitleKept ==
    [][(/\ lastOp.op = "handleSaveEdit"
        /\ Trim(lastOp.text) # <<>>
        /\ lastOp'.op # "handleSaveEdit"
        /\ lastOp.id \in Ids(conversations)
        /\ lastOp.id \in Ids(conversations'))
       => TitleOf(conversations', lastOp.id) = TitleOf(conversations, lastOp.id)]_vars

====
